---- MODULE Spec2Model ----
(***************************************************************************)
(* Model of consultation-backend's server.js: the storage-path config      *)
(* file, the handlers that read and write it, the video upload handlers,   *)
(* the global error handler and the startup sequence.                      *)
(*                                                                         *)
(* src/server.js holds three revisions of the server, one after another:   *)
(*   revision 1, lines   1-201: local disk storage (multer.diskStorage);   *)
(*   revision 2, lines 203-381: Cloudinary, getStoragePath with "||";      *)
(*   revision 3, lines 383-577: Cloudinary, getStoragePath without "||".   *)
(* The variable rev says which revision is running; it never changes.      *)
(* Revision 2 is modelled as its handlers are written (its allowedOrigins  *)
(* array, lines 231-235, lacks a comma).                                   *)
(***************************************************************************)
EXTENDS Integers, Sequences, FiniteSets, TLC

(* ---------------------------- bounds ----------------------------------- *)
\* upload requests that may be in flight at the same time
MaxUploads == 1

(* ------------------------- JavaScript values --------------------------- *)
\* A JavaScript value: undefined, null or a string (a sequence of text pieces).
Undefined == [t |-> "undefined", s |-> <<>>]
Null == [t |-> "null", s |-> <<>>]
Str(s) == [t |-> "string", s |-> s]

True == [t |-> "boolean", s |-> <<"true">>]
False == [t |-> "boolean", s |-> <<"false">>]

\* JavaScript truthiness, as used by "if (!x)" and "x || y"
Truthy(v) == v.t = "string" /\ v.s # <<>>

\* the fallback literal 'default-folder'
DefaultFolder == Str(<<"default-folder">>)

\* request bodies' newStoragePath: missing, null, '', '/data/videos', 'clips'
AbsPathIn == Str(<<"/", "data", "/", "videos">>)
RelPathIn == Str(<<"clips">>)
BodyValues == {Undefined, Null, Str(<<>>), AbsPathIn, RelPathIn}

(* ------------------------------ path ----------------------------------- *)
\* process.cwd(), the directory path.resolve makes relative paths absolute in
Cwd == <<"/", "app">>

\* path.resolve(p) of a string p: an absolute path is kept, a relative one
\* is appended to the working directory
pathResolve(v) ==
    IF v.s # <<>> /\ v.s[1] = "/" THEN v
    ELSE IF v.s = <<>> THEN Str(Cwd)
    ELSE Str(Cwd \o <<"/">> \o v.s)

\* path.join(dir, name) of two strings (an empty segment is skipped)
pathJoin(dir, name) ==
    IF dir.s = <<>> THEN name ELSE Str(dir.s \o <<"/">> \o name.s)

(* ------------------------------ JSON ----------------------------------- *)
\* The text of a file is a sequence of tokens; QUOTE delimits string literals.
QUOTE == "\""

\* JSON.stringify({ path: v }, null, 2): a property whose value is undefined
\* is left out, null is written as null, a string as a quoted literal
JSONstringify(v) ==
    IF v.t = "undefined" THEN <<"{", "}">>
    ELSE IF v.t = "null" THEN <<"{", QUOTE, "path", QUOTE, ":", "null", "}">>
    ELSE <<"{", QUOTE, "path", QUOTE, ":", QUOTE>> \o v.s \o <<QUOTE, "}">>

\* What JSON.parse(text) followed by ".path" gives: [ok |-> FALSE] when
\* JSON.parse throws a SyntaxError or the property access throws a TypeError
\* (the parsed value is null), else [ok |-> TRUE, path |-> the value of .path]
Thrown == [ok |-> FALSE, path |-> Undefined]
Got(v) == [ok |-> TRUE, path |-> v]
JSONparsePath(text) ==
    LET n == Len(text) IN
    IF text = <<"null">> THEN Thrown
    ELSE IF text = <<"{", "}">> THEN Got(Undefined)
    ELSE IF n >= 7 /\ SubSeq(text, 1, 5) = <<"{", QUOTE, "path", QUOTE, ":">>
            /\ text[n] = "}"
         THEN IF n = 7 /\ text[6] = "null" THEN Got(Null)
              ELSE IF n >= 8 /\ text[6] = QUOTE /\ text[n-1] = QUOTE
                      /\ \A i \in 7..(n-2) : text[i] # QUOTE
                   THEN Got(Str(SubSeq(text, 7, n-2)))
                   ELSE Thrown
    ELSE Thrown

(* --------------------------- the config file --------------------------- *)
\* storagePath.json: absent, present but unreadable, or present with a text
Absent == [kind |-> "absent", text |-> <<>>]
Unreadable == [kind |-> "unreadable", text |-> <<>>]
File(text) == [kind |-> "file", text |-> text]

\* the states the file can be in when the process first starts
InitFiles ==
    { Absent, Unreadable,
      File(<<"{", QUOTE, "path">>),          \* not valid JSON
      File(<<"{", "}">>),                    \* valid JSON, no path field
      File(JSONstringify(Str(<<>>))),        \* valid JSON, empty path
      File(JSONstringify(AbsPathIn)) }       \* valid JSON, non-empty path

\* fs.readFileSync + JSON.parse + .path, the body of getStoragePath's try
readConfigPath(f) == IF f.kind = "file" THEN JSONparsePath(f.text) ELSE Thrown

\* getStoragePath, revision 1: config.path, null when anything throws
getStoragePath1(f) ==
    LET r == readConfigPath(f) IN IF r.ok THEN r.path ELSE Null

\* getStoragePath, revision 2: config.path || 'default-folder'
getStoragePath2(f) ==
    LET r == readConfigPath(f) IN
    IF r.ok THEN (IF Truthy(r.path) THEN r.path ELSE DefaultFolder)
    ELSE DefaultFolder

\* getStoragePath, revision 3: config.path, 'default-folder' when anything throws
getStoragePath3(f) ==
    LET r == readConfigPath(f) IN IF r.ok THEN r.path ELSE DefaultFolder

\* getStoragePath of the running revision
getStoragePath(r, f) ==
    CASE r = 1 -> getStoragePath1(f)
      [] r = 2 -> getStoragePath2(f)
      [] OTHER -> getStoragePath3(f)

(* ------------------------------ requests -------------------------------- *)
\* What the client sends in the Authorization header of its requests:
\* nothing, an expired token, a valid token of a doctor, a valid token of an
\* admin
Tokens == {"none", "expired", "doctor", "admin"}

\* The file part 'videoFile' of an upload request: req.file is undefined when
\* the part is missing, else it has the original name 'clip.mp4'
ClipName == Str(<<"clip.mp4">>)
FileParts == {Undefined, ClipName}

(* ------------------------------ responses ------------------------------- *)
\* A response: the status and the fields of the JSON body; a field the
\* handler does not set (or sets to undefined) is Undefined, as res.json
\* leaves it out
NoBody ==
    [success |-> Undefined, message |-> Undefined, error |-> Undefined,
     details |-> Undefined, path |-> Undefined, folder |-> Undefined,
     videoPath |-> Undefined, videoUrl |-> Undefined, publicId |-> Undefined]
NoResponse == [status |-> 0, body |-> NoBody]
Json(status, body) == [status |-> status, body |-> body]

\* error.message of the errors the handlers can meet
EACCES == Str(<<"EACCES: permission denied">>)
ENOSPC == Str(<<"ENOSPC: no space left on device">>)
CloudError == Str(<<"cloudinary: request failed">>)
PathNotSet == Str(<<"Storage path not set">>)
JoinTypeError == Str(<<"The path argument must be of type string">>)
InternalMessages == {EACCES, ENOSPC, CloudError, PathNotSet, JoinTypeError}

\* The global error handler (app.use((err, req, res, next) => ...)): status
\* 500, err.message only when NODE_ENV is 'development'
errorHandler(env, msg) ==
    Json(500, [NoBody EXCEPT !.success = False,
                            !.message = Str(<<"Something went wrong!">>),
                            !.error = IF env = "development" THEN msg ELSE Undefined])

VARIABLES
    rev,          \* the revision of server.js that runs (1, 2 or 3)
    NODE_ENV,     \* process.env.NODE_ENV
    MONGODB_URI,  \* whether process.env.MONGODB_URI is defined
    authorization, \* the Authorization header of the client's requests
    pc,           \* where the process is: "load", "connecting", "bootstrap",
                  \* "listening", "exited"
    boot,         \* this run's startup history (see NoBoot)
    users,        \* the document store's user collection
    configFile,   \* storagePath.json
    dirs,         \* the directories that exist (absolute paths)
    lastOk,       \* the value stored by the last update answered with success
    last,         \* the last request that was answered (see NoLast)
    uploads       \* the upload requests in flight, by slot

vars == <<rev, NODE_ENV, MONGODB_URI, authorization, pc, boot, users, configFile,
          dirs, lastOk, last, uploads>>

Slots == 1..MaxUploads

\* startup history of one run of the process: whether mongoose.connect was
\* called and resolved, whether createDefaultAdmin was called, whether the
\* admin record existed when it ran, how it ended ("none", "ok", "failed"),
\* whether app.listen was called
NoBoot == [connectCalled |-> FALSE, connected |-> FALSE, adminCalled |-> FALSE,
           existed |-> FALSE, admin |-> "none", listenCalled |-> FALSE]

\* What is known of an upload request: the file part, the directory the
\* destination callback resolved (revision 1), the path the file was written
\* at (revision 1), the folder given to upload_stream and the number of calls
\* of upload_stream (revisions 2, 3), how the cloud call ended and its result,
\* and how many times the request was answered
NoResult == [secure_url |-> Undefined, public_id |-> Undefined]
NoUpload ==
    [file |-> Undefined, dest |-> Undefined, written |-> Undefined,
     folder |-> Undefined, read |-> Undefined, calls |-> 0,
     failed |-> FALSE, result |-> NoResult, nresp |-> 0]

\* The last request that was answered: its route ("update", "get", "upload"),
\* its newStoragePath, whether it changed the config file, the
\* response, and for an upload what is known of it
NoLast == [route |-> "none", req |-> Undefined,
           changed |-> FALSE, resp |-> NoResponse, up |-> NoUpload]

\* An upload request in flight: st is "idle" (no request), "writing"
\* (revision 1: the destination is resolved and multer is writing the file)
\* or "pending" (revisions 2, 3: upload_stream was called, its callback has
\* not run)
IdleUpload == [st |-> "idle", up |-> NoUpload]

(* ------------------------------ users ----------------------------------- *)
AdminLogin == "admin@example.com"
AdminRecord(us) ==
    [id |-> Cardinality(us) + 1, loginId |-> AdminLogin, role |-> "admin",
     password |-> "hashed"]
Doctor == [id |-> 1, loginId |-> "doc1", role |-> "doctor", password |-> "hashed"]
\* a user store of an earlier deployment, whose admin changed the password
OldAdmin == [id |-> 2, loginId |-> AdminLogin, role |-> "admin",
             password |-> "hashed-changed"]
InitUsers == { {Doctor}, {Doctor, OldAdmin} }

\* User.createDefaultAdmin: look the admin up by its login identifier and
\* insert it when absent
createDefaultAdminAlways(us) == us \cup {AdminRecord(us)}
createDefaultAdmin(us) ==
    IF \E u \in us : u.loginId = AdminLogin THEN us
    ELSE us \cup {AdminRecord(us)}

Admins(us) == {u \in us : u.loginId = AdminLogin}

\* the path a valid config file holds, Undefined when it holds none
StoredPath(f) ==
    LET r == readConfigPath(f) IN
    IF r.ok /\ Truthy(r.path) THEN r.path ELSE Undefined

Init ==
    /\ rev \in 1..3
    /\ NODE_ENV \in {"production", "development"}
    /\ MONGODB_URI \in BOOLEAN
    /\ authorization \in Tokens
    /\ pc = "load"
    /\ boot = NoBoot
    /\ users \in InitUsers
    /\ configFile \in InitFiles
    /\ dirs = {}
    /\ lastOk = StoredPath(configFile)
    /\ last = NoLast
    /\ uploads = [i \in Slots |-> IdleUpload]

(* ------------------------------ startup --------------------------------- *)
\* Module load: without MONGODB_URI, process.exit(1); else startServer() is
\* called and awaits mongoose.connect
LoadModule ==
    /\ pc = "load"
    /\ IF MONGODB_URI
       THEN /\ pc' = "connecting"
            /\ boot' = [boot EXCEPT !.connectCalled = TRUE]
       ELSE /\ pc' = "exited"
            /\ boot' = boot
    /\ UNCHANGED <<rev, NODE_ENV, MONGODB_URI, authorization, users, configFile,
                   dirs, lastOk, last, uploads>>

\* mongoose.connect settles: resolved, startServer calls createDefaultAdmin
\* and awaits it; rejected, the outer catch calls process.exit(1)
ConnectSettledNoExit(ok) ==
    /\ pc = "connecting"
    /\ pc' = "bootstrap"
    /\ boot' = [boot EXCEPT !.connected = ok, !.adminCalled = TRUE]
    /\ UNCHANGED <<rev, NODE_ENV, MONGODB_URI, authorization, users, configFile,
                   dirs, lastOk, last, uploads>>
ConnectSettled(ok) ==
    /\ pc = "connecting"
    /\ IF ok
       THEN /\ pc' = "bootstrap"
            /\ boot' = [boot EXCEPT !.connected = TRUE, !.adminCalled = TRUE]
       ELSE /\ pc' = "exited"
            /\ boot' = boot
    /\ UNCHANGED <<rev, NODE_ENV, MONGODB_URI, authorization, users, configFile,
                   dirs, lastOk, last, uploads>>

\* createDefaultAdmin settles: resolved or rejected (the inner catch logs
\* the error), startServer goes on to app.listen
AdminSettledNoCatch(ok) ==
    /\ pc = "bootstrap"
    /\ users' = IF ok THEN createDefaultAdmin(users) ELSE users
    /\ IF ok
       THEN /\ pc' = "listening"
            /\ boot' = [boot EXCEPT !.admin = "ok", !.listenCalled = TRUE,
                                    !.existed = Admins(users) # {}]
       ELSE /\ pc' = "exited"
            /\ boot' = [boot EXCEPT !.admin = "failed",
                                    !.existed = Admins(users) # {}]
    /\ UNCHANGED <<rev, NODE_ENV, MONGODB_URI, authorization, configFile,
                   dirs, lastOk, last, uploads>>
AdminSettled(ok) ==
    /\ pc = "bootstrap"
    /\ users' = IF ok THEN createDefaultAdmin(users) ELSE users
    /\ pc' = "listening"
    /\ boot' = [boot EXCEPT !.admin = IF ok THEN "ok" ELSE "failed",
                            !.existed = Admins(users) # {},
                            !.listenCalled = TRUE]
    /\ UNCHANGED <<rev, NODE_ENV, MONGODB_URI, authorization, configFile,
                   dirs, lastOk, last, uploads>>

\* The container runs the server again (CMD npm run dev) after it exited or
\* was stopped: requests in flight are lost, the disk and the store stay
Restart ==
    /\ pc \in {"exited", "listening"}
    /\ pc' = "load"
    /\ boot' = NoBoot
    /\ uploads' = [i \in Slots |-> IdleUpload]
    /\ last' = NoLast
    /\ UNCHANGED <<rev, NODE_ENV, MONGODB_URI, authorization, users, configFile, dirs,
                   lastOk>>

(* --------------------------- config handlers ---------------------------- *)
\* How fs.writeFileSync can end: written; thrown on open (the file is as it
\* was); thrown while writing, after the open truncated the file
WriteOutcomes(f) ==
    IF f.kind = "unreadable" THEN {"EACCES"} ELSE {"ok", "EACCES", "ENOSPC"}
writeFileSync(f, text, out) ==
    CASE out = "ok" -> File(text)
      [] out = "ENOSPC" -> File(<<>>)
      [] OTHER -> f
WriteError(out) == IF out = "ENOSPC" THEN ENOSPC ELSE EACCES

\* "if (!newStoragePath)": the guard of the update handlers
pathIsMissingStrict(v) == v.t = "undefined"
pathIsMissing(v) == ~Truthy(v)

\* The record of a request answered by a synchronous handler
Answered(route, req, f, f2, resp) ==
    [route |-> route, req |-> req, changed |-> f2 # f,
     resp |-> resp, up |-> NoUpload]

\* POST /update-storage-path, revision 1
UpdateStoragePathLocal(v, out, mk) ==
    /\ pc = "listening" /\ rev = 1
    /\ IF pathIsMissing(v)
       THEN /\ out = "ok" /\ mk
            /\ last' = Answered("update", v, configFile, configFile,
                   Json(400, [NoBody EXCEPT
                       !.error = Str(<<"Storage path is required">>)]))
            /\ UNCHANGED <<configFile, dirs, lastOk>>
       ELSE LET absolutePath == pathResolve(v)
                written == writeFileSync(configFile,
                               JSONstringify(absolutePath), out)
                exists == absolutePath \in dirs
            IN /\ out \in WriteOutcomes(configFile)
               /\ (out # "ok" \/ exists) => mk
               /\ configFile' = written
               /\ dirs' = IF out = "ok" /\ mk THEN dirs \cup {absolutePath}
                          ELSE dirs
               /\ IF out = "ok" /\ mk
                  THEN /\ lastOk' = absolutePath
                       /\ last' = Answered("update", v, configFile,
                              written,
                              Json(200, [NoBody EXCEPT
                                  !.success = True,
                                  !.message = Str(<<"Storage path updated successfully">>),
                                  !.path = absolutePath]))
                  ELSE /\ lastOk' = lastOk
                       /\ last' = Answered("update", v, configFile,
                              written,
                              Json(500, [NoBody EXCEPT
                                  !.error = Str(<<"Error saving storage path">>),
                                  !.details = IF out = "ok" THEN EACCES
                                              ELSE WriteError(out)]))
    /\ UNCHANGED <<rev, NODE_ENV, MONGODB_URI, authorization, pc, boot, users, uploads>>

\* POST /api/update-storage-path, revisions 2 and 3
UpdateStoragePathCloud(v, out) ==
    /\ pc = "listening" /\ rev \in {2, 3}
    /\ IF pathIsMissing(v)
       THEN /\ out = "ok"
            /\ last' = Answered("update", v, configFile, configFile,
                   Json(400, [NoBody EXCEPT
                       !.error = Str(<<"Storage path is required">>)]))
            /\ UNCHANGED <<configFile, lastOk>>
       ELSE LET written == writeFileSync(configFile, JSONstringify(v), out)
            IN /\ out \in WriteOutcomes(configFile)
               /\ configFile' = written
               /\ IF out = "ok"
                  THEN /\ lastOk' = v
                       /\ last' = Answered("update", v, configFile,
                              written,
                              Json(200, [NoBody EXCEPT
                                  !.success = True,
                                  !.message = Str(<<"Cloudinary folder updated successfully">>),
                                  !.folder = v]))
                  ELSE /\ lastOk' = lastOk
                       /\ last' = Answered("update", v, configFile,
                              written,
                              Json(500, [NoBody EXCEPT
                                  !.error = Str(<<"Error saving Cloudinary folder">>),
                                  !.details = WriteError(out)]))
    /\ UNCHANGED <<rev, NODE_ENV, MONGODB_URI, authorization, pc, boot, users,
                   dirs, uploads>>

\* GET /get-storage-path (revision 1), GET /api/get-storage-path (2 and 3)
GetStoragePath ==
    /\ pc = "listening"
    /\ LET storagePath == getStoragePath(rev, configFile) IN
       last' = Answered("get", Undefined, configFile, configFile,
                   IF ~Truthy(storagePath)
                   THEN Json(400, [NoBody EXCEPT
                            !.error = Str(<<"Storage path not found">>)])
                   ELSE Json(200, [NoBody EXCEPT !.path = storagePath]))
    /\ UNCHANGED <<rev, NODE_ENV, MONGODB_URI, authorization, pc, boot, users,
                   configFile, dirs, lastOk, uploads>>

(* --------------------------- upload handlers ---------------------------- *)
\* the least idle slot takes the next upload request
FreeSlot(i) ==
    /\ uploads[i].st = "idle"
    /\ \A j \in Slots : j < i => uploads[j].st # "idle"

AnsweredUpload(up, resp) ==
    [route |-> "upload", req |-> Undefined, changed |-> FALSE,
     resp |-> resp, up |-> [up EXCEPT !.nresp = @ + 1]]

NoFileResponse ==
    Json(400, [NoBody EXCEPT !.error = Str(<<"No video file uploaded">>)])

\* POST /save-video, revision 1, up to the destination callback of
\* multer.diskStorage: without a file part the handler runs at once
SaveVideoLocal(i, file) ==
    /\ pc = "listening" /\ rev = 1
    /\ FreeSlot(i)
    /\ LET storagePath == getStoragePath1(configFile) IN
       IF file = Undefined
       THEN /\ last' = AnsweredUpload(NoUpload, NoFileResponse)
            /\ UNCHANGED <<dirs, uploads>>
       ELSE IF ~Truthy(storagePath)
       THEN /\ last' = AnsweredUpload([NoUpload EXCEPT !.file = file],
                           errorHandler(NODE_ENV, PathNotSet))
            /\ UNCHANGED <<dirs, uploads>>
       ELSE /\ dirs' = dirs \cup {pathResolve(storagePath)}
            /\ uploads' = [uploads EXCEPT ![i] =
                   [st |-> "writing",
                    up |-> [NoUpload EXCEPT !.file = file,
                                            !.dest = storagePath]]]
            /\ last' = last
    /\ UNCHANGED <<rev, NODE_ENV, MONGODB_URI, authorization, pc, boot, users, configFile, lastOk>>

\* the path the /save-video handler reports, revision 1
videoPath(up, f) == pathJoin(getStoragePath1(f), up.file)

\* POST /save-video, revision 1, once multer has written the file: the
\* handler runs with req.file set
FileWrittenLocal(i) ==
    /\ pc = "listening" /\ rev = 1
    /\ uploads[i].st = "writing"
    /\ LET u == uploads[i].up
           at == pathResolve(pathJoin(u.dest, u.file))
           up == [u EXCEPT !.written = at]
       IN last' = AnsweredUpload(up,
              IF getStoragePath1(configFile).t # "string"
              THEN errorHandler(NODE_ENV, JoinTypeError)
              ELSE Json(200, [NoBody EXCEPT
                       !.success = True,
                       !.message = Str(<<"Video saved successfully">>),
                       !.videoPath = videoPath(up, configFile)]))
    /\ uploads' = [uploads EXCEPT ![i] = IdleUpload]
    /\ UNCHANGED <<rev, NODE_ENV, MONGODB_URI, authorization, pc, boot, users, configFile,
                   dirs, lastOk>>

\* POST /api/save-video, revisions 2 and 3, up to the call of upload_stream
SaveVideoCloudAlways(i, file) ==
    /\ pc = "listening" /\ rev \in {2, 3}
    /\ FreeSlot(i)
    /\ uploads' = [uploads EXCEPT ![i] =
           [st |-> "pending",
            up |-> [NoUpload EXCEPT
                       !.file = file,
                       !.read = getStoragePath(rev, configFile),
                       !.folder = getStoragePath(rev, configFile),
                       !.calls = 1]]]
    /\ last' = last
    /\ UNCHANGED <<rev, NODE_ENV, MONGODB_URI, authorization, pc, boot, users, configFile,
                   dirs, lastOk>>
SaveVideoCloud(i, file) ==
    /\ pc = "listening" /\ rev \in {2, 3}
    /\ FreeSlot(i)
    /\ IF file = Undefined
       THEN /\ last' = AnsweredUpload(NoUpload, NoFileResponse)
            /\ UNCHANGED uploads
       ELSE /\ uploads' = [uploads EXCEPT ![i] =
                   [st |-> "pending",
                    up |-> [NoUpload EXCEPT
                               !.file = file,
                               !.read = getStoragePath(rev, configFile),
                               !.folder = getStoragePath(rev, configFile),
                               !.calls = 1]]]
            /\ last' = last
    /\ UNCHANGED <<rev, NODE_ENV, MONGODB_URI, authorization, pc, boot, users, configFile,
                   dirs, lastOk>>

\* What Cloudinary returns for a stored video: the public id is the folder
\* and the asset's name, the secure URL is built from the public id
CloudResult(folder) ==
    LET id == IF Truthy(folder) THEN pathJoin(folder, Str(<<"asset1">>))
              ELSE Str(<<"asset1">>)
    IN [secure_url |-> Str(<<"https://res.cloudinary.com/">> \o id.s),
        public_id |-> id]

\* the callback given to upload_stream, revisions 2 and 3
UploadStreamCallback(i, ok) ==
    /\ pc = "listening" /\ rev \in {2, 3}
    /\ uploads[i].st = "pending"
    /\ LET u == uploads[i].up
           result == CloudResult(u.folder)
       IN last' = AnsweredUpload(
                     [u EXCEPT !.failed = ~ok,
                               !.result = IF ok THEN result ELSE NoResult],
                     IF ~ok
                     THEN Json(500, [NoBody EXCEPT !.error = CloudError])
                     ELSE Json(200, [NoBody EXCEPT
                              !.success = True,
                              !.message = Str(<<"Video uploaded successfully to Cloudinary">>),
                              !.videoUrl = result.secure_url,
                              !.publicId = result.public_id]))
    /\ uploads' = [uploads EXCEPT ![i] = IdleUpload]
    /\ UNCHANGED <<rev, NODE_ENV, MONGODB_URI, authorization, pc, boot, users, configFile,
                   dirs, lastOk>>

Next ==
    \/ LoadModule
    \/ \E ok \in BOOLEAN : ConnectSettled(ok)
    \/ \E ok \in BOOLEAN : AdminSettled(ok)
    \/ Restart
    \/ \E v \in BodyValues, out \in {"ok", "EACCES", "ENOSPC"},
          mk \in BOOLEAN : UpdateStoragePathLocal(v, out, mk)
    \/ \E v \in BodyValues, out \in {"ok", "EACCES", "ENOSPC"} :
          UpdateStoragePathCloud(v, out)
    \/ GetStoragePath
    \/ \E i \in Slots, file \in FileParts :
          SaveVideoLocal(i, file)
    \/ \E i \in Slots : FileWrittenLocal(i)
    \/ \E i \in Slots, file \in FileParts :
          SaveVideoCloud(i, file)
    \/ \E i \in Slots, ok \in BOOLEAN : UploadStreamCallback(i, ok)

Spec == Init /\ [][Next]_vars

\* Promises settle: mongoose.connect and createDefaultAdmin resolve or reject
\* within the driver's timeouts, and the module's top level runs to its end
FairSpec ==
    /\ Spec
    /\ WF_vars(LoadModule)
    /\ WF_vars(\E ok \in BOOLEAN : ConnectSettled(ok))
    /\ WF_vars(\E ok \in BOOLEAN : AdminSettled(ok))

(* ------------------------------- claims --------------------------------- *)
\* what the Auth Gate of the specification answers for a route and a token:
\* 401 without a valid token, 403 for a non-admin on the admin-only update
\* route, 0 when the request may pass
GateStatus(route, token) ==
    IF token \in {"none", "expired"} THEN 401
    ELSE IF route = "update" /\ token # "admin" THEN 403
    ELSE 0

\* C1: a request to /api/update-storage-path or /api/save-video that the
\* Auth Gate must reject (no token, an expired token, a non-admin token on
\* the update route) changes no configuration and performs no upload.
C1_Gated ==
    (rev = 3 /\ last.route \in {"update", "upload"}
       /\ GateStatus(last.route, authorization) # 0)
    => /\ ~last.changed
       /\ last.up.calls = 0

\* the value the claims expect of a read of the config file f
ExpectedRead(f) == IF StoredPath(f) = Undefined THEN DefaultFolder ELSE StoredPath(f)

\* C2: whatever the state of the config file, GET get-storage-path answers
\* 200 with {path}, the stored path when there is a non-empty one and
\* 'default-folder' otherwise.
C2_ReadNeverFails ==
    last.route = "get"
    => /\ last.resp.status = 200
       /\ last.resp.body.path = ExpectedRead(configFile)

\* C3: once an update has succeeded, every read returns exactly the value
\* stored by the most recent successful update.
C3_LastWriteWins ==
    (last.route = "get" /\ lastOk # Undefined)
    => /\ last.resp.status = 200
       /\ last.resp.body.path = lastOk

\* C4: an update whose newStoragePath is missing, null or empty is answered
\* 400 'Storage path is required' and leaves the config file as it was.
C4_InvalidInput ==
    (last.route = "update" /\ ~Truthy(last.req))
    => /\ last.resp.status = 400
       /\ last.resp.body.error = Str(<<"Storage path is required">>)
       /\ ~last.changed

C4_Witness ==
    /\ last.route = "update" /\ last.req = Str(<<>>)
    /\ last.resp.status = 400
    /\ StoredPath(configFile) = RelPathIn

\* C5: the path a successful local upload reports is the path the file was
\* written at, the resolved directory joined with the original name, and
\* that directory exists.
C5_ReportedIsWritten ==
    (rev = 1 /\ last.route = "upload" /\ last.resp.status = 200)
    => /\ last.resp.body.videoPath = pathJoin(last.up.dest, last.up.file)
       /\ pathResolve(last.resp.body.videoPath) = last.up.written
       /\ pathResolve(last.up.dest) \in dirs

\* C6: an upload request is answered once; 400 NoFile exactly when it has no
\* file part, and then upload_stream is never called; with a file part the
\* cloud revisions call upload_stream once with the folder read at that
\* request and answer 500 with the backend's message when it fails, success
\* with its secure URL and public id when it succeeds.
C6_UploadResponse ==
    /\ last.route = "upload"
       => /\ last.up.nresp = 1
          /\ (last.resp.status = 400 <=> last.up.file = Undefined)
          /\ last.up.file = Undefined
             => /\ last.up.calls = 0
                /\ last.resp.body.error = Str(<<"No video file uploaded">>)
          /\ (rev \in {2, 3} /\ last.up.file # Undefined)
             => /\ last.up.calls = 1
                /\ last.up.folder = last.up.read
                /\ last.up.failed
                   => /\ last.resp.status = 500
                      /\ last.resp.body.error = CloudError
                /\ ~last.up.failed
                   => /\ last.resp.status = 200
                      /\ last.resp.body.success = True
                      /\ last.resp.body.videoUrl = last.up.result.secure_url
                      /\ last.resp.body.publicId = last.up.result.public_id
                      /\ last.up.result = CloudResult(last.up.read)
    /\ \A i \in Slots :
          uploads[i].st = "pending"
          => /\ uploads[i].up.file # Undefined
             /\ uploads[i].up.calls = 1
             /\ uploads[i].up.nresp = 0
             /\ uploads[i].up.folder = uploads[i].up.read

C6_Witness ==
    /\ rev = 3 /\ last.route = "upload"
    /\ last.up.failed /\ last.resp.status = 500
    /\ last.up.folder = RelPathIn

\* C7: at most one record holds the default admin's login identifier,
\* exactly one once createDefaultAdmin has returned, and a call made when
\* the record exists leaves the store as it was.
C7_OneAdmin ==
    /\ [](Cardinality(Admins(users)) <= 1)
    /\ [](boot.admin = "ok" => Cardinality(Admins(users)) = 1)
    /\ [][Admins(users) # {} => users' = users]_vars

\* the second call in sequence: the admin that the first call created was
\* found by the call of a later run
C7_Witness ==
    /\ boot.admin = "ok" /\ boot.existed
    /\ users = {Doctor, AdminRecord({Doctor})}

\* C8: the server listens only after the connection is established and the
\* bootstrap has ended; without MONGODB_URI nothing is attempted; after a
\* failed connection the process has exited without listening.
C8_NoPartialStartup ==
    /\ (pc = "listening") = boot.listenCalled
    /\ boot.listenCalled => (boot.connected /\ boot.admin \in {"ok", "failed"})
    /\ boot.adminCalled => boot.connected
    /\ ~MONGODB_URI
       => /\ pc \in {"load", "exited"}
          /\ ~boot.connectCalled /\ ~boot.adminCalled /\ ~boot.listenCalled
    /\ (boot.connectCalled /\ ~boot.connected /\ pc # "connecting")
       => (pc = "exited" /\ ~boot.adminCalled /\ ~boot.listenCalled)

C8_Witness ==
    pc = "exited" /\ boot.connectCalled /\ ~boot.connected

\* C9: once the connection is established the server comes to listen,
\* whether createDefaultAdmin resolved or rejected, and a rejected bootstrap
\* leaves the process listening.
C9_BootstrapFailureSwallowed ==
    /\ [](boot.admin = "failed" => pc = "listening")
    /\ (boot.connected ~> pc = "listening")

C9_Witness ==
    boot.admin = "failed" /\ pc = "listening" /\ Admins(users) = {}

\* C10: in production no 5xx response carries the underlying error's
\* message.
C10_NoDetailInProduction ==
    (NODE_ENV = "production" /\ last.resp.status >= 500)
    => /\ last.resp.body.details = Undefined
       /\ last.resp.body.error \notin InternalMessages

\* C11: an update answered with an error (400 or 500) leaves the config file
\* as it was; an update answered with success leaves the reported path
\* stored and, in the local revision, its directory existing. Stated for the
\* updates whose write did not fail part-way (no ENOSPC), so that what is
\* left is the failure to create the directory after the file was written.
C11_AllOrNothing ==
    (last.route = "update" /\ last.resp.body.details # ENOSPC)
    => /\ last.resp.status \in {400, 500} => ~last.changed
       /\ last.resp.status = 200
          => /\ StoredPath(configFile) =
                  (IF rev = 1 THEN last.resp.body.path
                   ELSE last.resp.body.folder)
             /\ rev = 1 => last.resp.body.path \in dirs
====
